---- MODULE Spec2Model ----
(***************************************************************************)
(* BackendConfigurationPanel (src/src/i18n/index.ts): the React component  *)
(* that loads the backend configuration, lets the user edit it and drives  *)
(* the llamaSwap control plane.  The state is the component's useState     *)
(* cells, the async handlers suspended at an await (tasks), the pending    *)
(* setTimeout callbacks (timers) and the control plane's own state.        *)
(* Time advances in ticks of TickMs milliseconds.                          *)
(***************************************************************************)
EXTENDS Integers, Sequences, FiniteSets, TLC

\* ---------------------------------------------------------------- bounds
\* Handler invocations the user may start (accepted clicks) under Spec.
MaxIntents == 1
\* The same budget under SpecOps, whose behaviours have fewer steps in them.
MaxOpsIntents == 3
\* The same budget under SpecBusy.
MaxBusyIntents == 2
\* The same budget under SpecModels.
MaxModelsIntents == 2
\* The same budget under SpecSelector.
MaxSelectorIntents == 1
\* The same budget under SpecRegistry.
MaxRegistryIntents == 2

\* ------------------------------------------------------ program constants
TickMs == 1000
Progress1Ms == 1000
Progress2Ms == 3000
Progress3Ms == 5000
Progress4Ms == 10000
ClearShortMs == 2000
ClearMediumMs == 3000
ClearLongMs == 5000

Null == "null"

\* -------------------------------------------------------------- documents
\* JSON texts the edit buffer can hold.  "docA/2" is document docA printed
\* with two-space indentation, "docA/0" the same document printed compactly,
\* "{" and "" are not JSON.
Docs == {"docA", "docB"}
GeneratedDoc == "docA"
ParseError == "Unexpected end of JSON input"

\* JSON.parse(text): the document, or ParseError when it throws.
JSONparse(text) ==
  CASE text = "docA/2" -> "docA"
    [] text = "docA/0" -> "docA"
    [] text = "docB/2" -> "docB"
    [] OTHER -> ParseError

\* JSON.stringify(doc, null, 2)
JSONstringify(doc) == doc \o "/2"

TypedTexts == {"{", "docA/2", "docA/0", "docB/2"}
FileTexts == {"{", "docB/2"}

\* ---------------------------------------------------------------- backends
AvailableBackends == {"cpu", "cuda"}
BackendChoices == {"auto"} \cup AvailableBackends

\* result.availableBackends: the backends the control plane lists.
BackendList == << [id |-> "cpu", name |-> "CPU"],
                 [id |-> "cuda", name |-> "NVIDIA CUDA"] >>

\* Override ids the control plane can hold: none, a listed backend, or one
\* that is no longer listed.
StoredOverrides == {Null, "cpu", "rocm"}

\* result.serviceStatus.currentBackendName: "" when the service reports none.
ActiveBackendNames == {"", "CPU", "NVIDIA CUDA"}

\* ------------------------------------------------------------------ models
ModelNames == {"m1"}
GpuLayerValues == {10, 20}
InitialModels == << [name |-> "m1", gpuLayers |-> 10] >>

\* ----------------------------------------------------------- remote results
OkResult == [success |-> TRUE, error |-> ""]
Results == {OkResult,
            [success |-> FALSE, error |-> ""],
            [success |-> FALSE, error |-> "remote failure"]}

\* result.error || fallback
ErrorOr(r, fallback) == IF r.error = "" THEN fallback ELSE r.error

VARIABLES
  configInfo,        \* last loaded ConfigurationInfo (NoConfigInfo: none)
  loading,           \* loading flag: the panel shows only a spinner
  error,             \* load error, or Null: the panel shows only Retry
  selectedBackend,   \* 'auto' or a backend id
  actualBackend,     \* name of the backend the service reported, '' if none
  jsonConfig,        \* JSON edit buffer (text)
  jsonError,         \* stored validation error, or Null
  modelConfigs,      \* model edit buffer
  operationStatus,   \* [type, message]
  hasUnsavedChanges,
  tasks,             \* async handlers suspended at an await
  timers,            \* pending setTimeout callbacks, in scheduling order
  server,            \* the control plane: override, configuration, models,
                     \* name of the backend the service runs on ('' if none)
  intentsLeft,       \* handler invocations the user may still start
  signal,            \* "rejected" when the step just taken was a click on a
                     \* disabled button, NoSignal otherwise
  \* the application shell around the panel (useTheme, App)
  mode,              \* 'light' or 'dark'
  brand,             \* 'default' or a brand class name
  classList,         \* document.documentElement.classList
  localStorage,      \* themeMode, themeBrand, activePage, current_app_id
  themeEffectDue,    \* the theme effect's dependencies changed, it has not run
  activePage,        \* the page App renders
  showOnboarding,
  userInfoPending,   \* checkUserInfo of the mount effect has not returned
  appPhase,          \* "render", "effects" or "idle"
  effectDeps         \* activePage when the activePage effects last ran

vars == << configInfo, actualBackend, loading, error, selectedBackend, jsonConfig, jsonError,
           modelConfigs, operationStatus, hasUnsavedChanges, tasks, timers,
           server, intentsLeft, signal, mode, brand, classList, localStorage,
           themeEffectDue, activePage, showOnboarding, userInfoPending,
           appPhase, effectDeps >>

shellVars == << mode, brand, classList, localStorage, themeEffectDue,
                activePage, showOnboarding, userInfoPending, appPhase,
                effectDeps >>

uiVars == << configInfo, actualBackend, loading, error, selectedBackend, jsonConfig,
             jsonError, modelConfigs, operationStatus, hasUnsavedChanges >>

NoConfigInfo == [currentBackendOverride |-> Null, configuration |-> Null,
                 currentBackendName |-> ""]
NoSignal == "none"

\* The shell while the panel is in use: the settings page is shown, the
\* theme is applied, no effect is due.
ShellAtRest ==
  /\ mode = "light"
  /\ brand = "default"
  /\ classList = {"light-mode"}
  /\ localStorage = [themeMode |-> "light", themeBrand |-> "default",
                     activePage |-> "settings", current_app_id |-> Null]
  /\ themeEffectDue = FALSE
  /\ activePage = "settings"
  /\ showOnboarding = FALSE
  /\ userInfoPending = FALSE
  /\ appPhase = "idle"
  /\ effectDeps = "settings"

\* ------------------------------------------------------------- sequences
RemoveAt(s, i) == [k \in 1..(Len(s) - 1) |-> IF k < i THEN s[k] ELSE s[k + 1]]

\* ----------------------------------------------------------------- timers
\* rem: ticks left; owner, op: the invocation and handler that called
\* setTimeout; kind: "clear" (the auto-clear) or "progress".
Timer(delayMs, owner, op, kind, type, message) ==
  [rem |-> delayMs \div TickMs, delay |-> delayMs, owner |-> owner, op |-> op,
   kind |-> kind, type |-> type, message |-> message]

IdleStatus == [type |-> "idle", message |-> ""]

\* setTimeout(() => setOperationStatus({ type: 'idle', message: '' }), ms)
ClearTimer(delayMs, owner, op) ==
  Timer(delayMs, owner, op, "clear", "idle", "")

\* setTimeout(() => setOperationStatus({ type: 'restarting', message }), ms)
ProgressTimer(delayMs, owner, op, message) ==
  Timer(delayMs, owner, op, "progress", "restarting", message)

\* A due callback runs unless one scheduled before it with the same delay is
\* due too (that one was scheduled in the same tick and runs first).
TimerDue(i) ==
  /\ timers[i].rem = 0
  /\ \A j \in 1..(i - 1) :
       ~(timers[j].rem = 0 /\ timers[j].delay = timers[i].delay)

\* A setTimeout callback runs: it sets operationStatus, whatever it is now.
FireTimer(i) ==
  /\ i \in DOMAIN timers
  /\ TimerDue(i)
  /\ operationStatus' = [type |-> timers[i].type, message |-> timers[i].message]
  /\ timers' = RemoveAt(timers, i)
  /\ signal' = NoSignal
  /\ UNCHANGED << configInfo, actualBackend, loading, error, selectedBackend, jsonConfig,
                  jsonError, modelConfigs, hasUnsavedChanges, tasks, server,
                  intentsLeft, shellVars >>

\* One tick of time passes: no callback is due, every delay shrinks by one.
Tick ==
  /\ timers # << >>
  /\ \A i \in DOMAIN timers : timers[i].rem > 0
  /\ timers' = [i \in DOMAIN timers |-> [timers[i] EXCEPT !.rem = @ - 1]]
  /\ signal' = NoSignal
  /\ UNCHANGED << uiVars, tasks, server, intentsLeft, shellVars >>

\* ------------------------------------------------------------------ tasks
\* id: the value of intentsLeft when the handler started (0: the mount
\* effect's load), unique per invocation; op: the handler; pc: the remote call it awaits;
\* arg: the handler's argument or the text it sent; payload: the model
\* records it sent; clearMs: delay of the auto-clear it schedules after its
\* reload (0: it schedules none).
Task(id, op, pc, arg, payload) ==
  [id |-> id, op |-> op, pc |-> pc, arg |-> arg, payload |-> payload,
   clearMs |-> 0]

MutationCalls == {"setBackendOverride", "restartWithOverrides",
                  "regenerateConfig", "saveConfigFromJson",
                  "saveConfigAndRestart", "saveModelConfiguration",
                  "saveAllModelConfigurations"}

\* const isOperationInProgress = operationStatus.type === 'saving' || ...
isOperationInProgress ==
  operationStatus.type \in {"saving", "restarting", "reconfiguring"}

\* The panel body (buttons, editors) is rendered: neither the loading
\* spinner nor the load-error box replaces it.
Rendered == ~loading /\ error = Null


\* ------------------------------------------------------------------- load
\* The handler resumes after `await loadConfigurationInfo()`: it schedules
\* its auto-clear and returns.
AfterLoad(i) ==
  /\ timers' = IF tasks[i].clearMs > 0
                THEN Append(timers, ClearTimer(tasks[i].clearMs, tasks[i].id, tasks[i].op))
                ELSE timers
  /\ tasks' = RemoveAt(tasks, i)

\* Variant of the continuation whose failure path drops the snapshot held.
getConfigurationInfoDropsSnapshot(i, r) ==
  /\ i \in DOMAIN tasks
  /\ tasks[i].pc = "getConfigurationInfo"
  /\ IF r.success
     THEN /\ configInfo' = [currentBackendOverride |-> server.override,
                            configuration |-> server.configuration,
                            currentBackendName |-> server.currentBackendName]
          /\ actualBackend' = IF server.currentBackendName # ""
                               THEN server.currentBackendName
                               ELSE actualBackend
          /\ selectedBackend' = IF server.override = Null THEN "auto"
                                 ELSE server.override
          /\ jsonConfig' = IF server.configuration # Null
                            THEN JSONstringify(server.configuration)
                            ELSE jsonConfig
          /\ tasks' = [tasks EXCEPT ![i].pc = "getModelConfigurations"]
          /\ UNCHANGED << loading, error, timers >>
     ELSE /\ error' = ErrorOr(r, "Failed to load configuration")
          /\ loading' = FALSE
          /\ AfterLoad(i)
          /\ configInfo' = NoConfigInfo
          /\ UNCHANGED << actualBackend, selectedBackend, jsonConfig >>
  /\ signal' = NoSignal
  /\ UNCHANGED << jsonError, modelConfigs, operationStatus, hasUnsavedChanges,
                  server, intentsLeft, shellVars >>

\* loadConfigurationInfo, after `await llamaSwap.getConfigurationInfo()`.
getConfigurationInfoDone(i, r) ==
  /\ i \in DOMAIN tasks
  /\ tasks[i].pc = "getConfigurationInfo"
  /\ IF r.success
     THEN /\ configInfo' = [currentBackendOverride |-> server.override,
                            configuration |-> server.configuration,
                            currentBackendName |-> server.currentBackendName]
          /\ actualBackend' = IF server.currentBackendName # ""
                               THEN server.currentBackendName
                               ELSE actualBackend
          /\ selectedBackend' = IF server.override = Null THEN "auto"
                                 ELSE server.override
          /\ jsonConfig' = IF server.configuration # Null
                            THEN JSONstringify(server.configuration)
                            ELSE jsonConfig
          /\ tasks' = [tasks EXCEPT ![i].pc = "getModelConfigurations"]
          /\ UNCHANGED << loading, error, timers >>
     ELSE /\ error' = ErrorOr(r, "Failed to load configuration")
          /\ loading' = FALSE
          /\ AfterLoad(i)
          /\ UNCHANGED << configInfo, actualBackend, selectedBackend, jsonConfig >>
  /\ signal' = NoSignal
  /\ UNCHANGED << jsonError, modelConfigs, operationStatus, hasUnsavedChanges,
                  server, intentsLeft, shellVars >>

\* loadModelConfigurations, after `await llamaSwap.getModelConfigurations()`,
\* then the finally of loadConfigurationInfo.
getModelConfigurationsDone(i, r) ==
  /\ i \in DOMAIN tasks
  /\ tasks[i].pc = "getModelConfigurations"
  /\ modelConfigs' = IF r.success THEN server.models ELSE modelConfigs
  /\ loading' = FALSE
  /\ AfterLoad(i)
  /\ signal' = NoSignal
  /\ UNCHANGED << configInfo, actualBackend, error, selectedBackend, jsonConfig, jsonError,
                  operationStatus, hasUnsavedChanges, server, intentsLeft, shellVars >>

\* The Retry button of the load-error box.
RetryButton ==
  /\ ~loading
  /\ error # Null
  /\ intentsLeft > 0
  /\ intentsLeft' = intentsLeft - 1
  /\ UNCHANGED shellVars
  /\ loading' = TRUE
  /\ error' = Null
  /\ tasks' = Append(tasks, Task(intentsLeft, "load", "getConfigurationInfo",
                                 "", << >>))
  /\ signal' = NoSignal
  /\ UNCHANGED << configInfo, actualBackend, selectedBackend, jsonConfig, jsonError,
                  modelConfigs, operationStatus, hasUnsavedChanges, timers,
                  server >>

\* The handler calls loadConfigurationInfo after its success: the spinner
\* replaces the panel and getConfigurationInfo is awaited.
StartReload(i, clearMs) ==
  /\ loading' = TRUE
  /\ error' = Null
  /\ tasks' = [tasks EXCEPT ![i].pc = "getConfigurationInfo",
                            ![i].clearMs = clearMs]

\* Variant of the catch block that schedules no auto-clear.
CatchWithoutClear(i, message, clearMs) ==
  /\ operationStatus' = [type |-> "error", message |-> message]
  /\ timers' = timers
  /\ tasks' = RemoveAt(tasks, i)

\* The handler's catch block: error status and its auto-clear.
Catch(i, message, clearMs) ==
  /\ operationStatus' = [type |-> "error", message |-> message]
  /\ timers' = Append(timers, ClearTimer(clearMs, tasks[i].id, tasks[i].op))
  /\ tasks' = RemoveAt(tasks, i)

\* A click on a disabled button: nothing runs.
Rejected ==
  /\ signal' = "rejected"
  /\ UNCHANGED << uiVars, tasks, timers, server, intentsLeft, shellVars >>

Accepted ==
  /\ intentsLeft > 0
  /\ intentsLeft' = intentsLeft - 1
  /\ UNCHANGED shellVars
  /\ signal' = NoSignal

\* ------------------------------------------------- "Current Backend:" label
\* configInfo.availableBackends.find(b => b.id === backendId): positions of
\* the matches, find takes the first.
BackendMatches(backendId) ==
  {k \in DOMAIN BackendList : BackendList[k].id = backendId}

FirstOf(S) == CHOOSE k \in S : \A j \in S : k <= j

\* Variant of the label that has no fallback to the raw id.
CurrentBackendLabelWithoutFallback ==
  IF selectedBackend = "auto"
  THEN IF actualBackend # ""
       THEN "Auto-detect (" \o actualBackend \o ")"
       ELSE "Auto-detect"
  ELSE IF BackendMatches(selectedBackend) # {}
       THEN BackendList[FirstOf(BackendMatches(selectedBackend))].name
       ELSE ""

\* selectedBackend === 'auto'
\*   ? (actualBackend ? `Auto-detect (${actualBackend})` : 'Auto-detect')
\*   : configInfo?.availableBackends.find(...)?.name || selectedBackend
CurrentBackendLabel ==
  IF selectedBackend = "auto"
  THEN IF actualBackend # ""
       THEN "Auto-detect (" \o actualBackend \o ")"
       ELSE "Auto-detect"
  ELSE IF BackendMatches(selectedBackend) # {}
       THEN BackendList[FirstOf(BackendMatches(selectedBackend))].name
       ELSE selectedBackend

\* What the selector shows: the mode, the id and the label.
effectiveChoice ==
  [mode |-> IF selectedBackend = "auto" THEN "auto" ELSE "explicit",
   id |-> selectedBackend,
   displayName |-> CurrentBackendLabel]

\* ----------------------------------------------------- handleBackendChange
DisplayBackend(backendId, autoLabel) ==
  IF backendId = "auto" THEN autoLabel ELSE backendId

\* Variant: the backend buttons carry no disabled attribute.
BackendButtonNeverDisabled == FALSE

\* disabled={isOperationInProgress}
BackendButtonDisabled == isOperationInProgress

handleBackendChange(backendId) ==
  /\ Accepted
  /\ operationStatus' = [type |-> "saving",
                         message |-> "Updating backend selection..."]
  /\ tasks' = Append(tasks, Task(intentsLeft, "ChangeBackend",
                                 "setBackendOverride", backendId, << >>))
  /\ UNCHANGED << configInfo, actualBackend, loading, error, selectedBackend, jsonConfig,
                  jsonError, modelConfigs, hasUnsavedChanges, timers, server >>

BackendButton(backendId) ==
  /\ Rendered
  /\ IF BackendButtonDisabled
     THEN Rejected
     ELSE handleBackendChange(backendId)

BackendProgressTimers(id, backendId) ==
  << ProgressTimer(Progress1Ms, id, "ChangeBackend", "Applying backend changes..."),
     ProgressTimer(Progress2Ms, id, "ChangeBackend", "Starting service with "
                     \o DisplayBackend(backendId, "auto-detect") \o " backend..."),
     ProgressTimer(Progress3Ms, id, "ChangeBackend",
                   "Initializing service... (this may take a moment)"),
     ProgressTimer(Progress4Ms, id, "ChangeBackend",
                   "Service startup in progress... (almost ready)") >>

\* Variant of the continuation that does not test result.success: the
\* handler goes on to the restart whatever setBackendOverride returned.
setBackendOverrideUnchecked(i, r) ==
  /\ i \in DOMAIN tasks
  /\ tasks[i].pc = "setBackendOverride"
  /\ selectedBackend' = tasks[i].arg
  /\ operationStatus' = [type |-> "restarting", message |-> "Stopping service..."]
  /\ timers' = timers \o BackendProgressTimers(tasks[i].id, tasks[i].arg)
  /\ tasks' = [tasks EXCEPT ![i].pc = "restartWithOverrides"]
  /\ signal' = NoSignal
  /\ UNCHANGED << configInfo, actualBackend, loading, error, jsonConfig, jsonError,
                  modelConfigs, hasUnsavedChanges, server, intentsLeft, shellVars >>

\* after `await llamaSwap.setBackendOverride(...)`
setBackendOverrideDone(i, r) ==
  /\ i \in DOMAIN tasks
  /\ tasks[i].pc = "setBackendOverride"
  /\ IF r.success
     THEN /\ server' = [server EXCEPT !.override =
                          IF tasks[i].arg = "auto" THEN Null ELSE tasks[i].arg]
          /\ selectedBackend' = tasks[i].arg
          /\ operationStatus' = [type |-> "restarting",
                                 message |-> "Stopping service..."]
          /\ timers' = timers \o BackendProgressTimers(tasks[i].id, tasks[i].arg)
          /\ tasks' = [tasks EXCEPT ![i].pc = "restartWithOverrides"]
     ELSE /\ Catch(i, ErrorOr(r, "Failed to set backend"), ClearLongMs)
          /\ UNCHANGED << server, selectedBackend >>
  /\ signal' = NoSignal
  /\ UNCHANGED << configInfo, actualBackend, loading, error, jsonConfig, jsonError,
                  modelConfigs, hasUnsavedChanges, intentsLeft, shellVars >>

\* Variant of the continuation whose failure path takes the selection back
\* to the one of the loaded snapshot and clears the override.
backendRestartWithRollback(i, r) ==
  /\ i \in DOMAIN tasks
  /\ tasks[i].op = "ChangeBackend"
  /\ tasks[i].pc = "restartWithOverrides"
  /\ IF r.success
     THEN /\ operationStatus' =
               [type |-> "success",
                message |-> "Backend changed to "
                            \o DisplayBackend(tasks[i].arg, "Auto-detect")
                            \o " and service restarted!"]
          /\ StartReload(i, ClearMediumMs)
          /\ UNCHANGED << timers, selectedBackend, server >>
     ELSE /\ Catch(i, ErrorOr(r, "Failed to restart service with new backend"),
                   ClearLongMs)
          /\ selectedBackend' = IF configInfo.currentBackendOverride = Null
                                 THEN "auto"
                                 ELSE configInfo.currentBackendOverride
          /\ server' = [server EXCEPT
                          !.override = configInfo.currentBackendOverride]
          /\ UNCHANGED << loading, error >>
  /\ signal' = NoSignal
  /\ UNCHANGED << configInfo, actualBackend, jsonConfig, jsonError, modelConfigs,
                  hasUnsavedChanges, intentsLeft, shellVars >>

\* after `await llamaSwap.restartWithOverrides()` in handleBackendChange
backendRestartDone(i, r) ==
  /\ i \in DOMAIN tasks
  /\ tasks[i].op = "ChangeBackend"
  /\ tasks[i].pc = "restartWithOverrides"
  /\ IF r.success
     THEN /\ operationStatus' =
               [type |-> "success",
                message |-> "Backend changed to "
                            \o DisplayBackend(tasks[i].arg, "Auto-detect")
                            \o " and service restarted!"]
          /\ StartReload(i, ClearMediumMs)
          /\ UNCHANGED timers
     ELSE /\ Catch(i, ErrorOr(r, "Failed to restart service with new backend"),
                   ClearLongMs)
          /\ UNCHANGED << loading, error >>
  /\ signal' = NoSignal
  /\ UNCHANGED << configInfo, actualBackend, selectedBackend, jsonConfig, jsonError,
                  modelConfigs, hasUnsavedChanges, server, intentsLeft, shellVars >>


\* ------------------------------------------------------- handleReconfigure
ReconfigureButtonDisabled == isOperationInProgress

handleReconfigure ==
  /\ Accepted
  /\ operationStatus' = [type |-> "reconfiguring",
                         message |-> "Regenerating configuration..."]
  /\ tasks' = Append(tasks, Task(intentsLeft, "Reconfigure",
                                 "regenerateConfig", "", << >>))
  /\ UNCHANGED << configInfo, actualBackend, loading, error, selectedBackend, jsonConfig,
                  jsonError, modelConfigs, hasUnsavedChanges, timers, server >>

ReconfigureButton ==
  /\ Rendered
  /\ IF ReconfigureButtonDisabled
     THEN Rejected
     ELSE handleReconfigure

\* Variant of the continuation that shows success without re-fetching.
regenerateConfigWithoutReload(i, r) ==
  /\ i \in DOMAIN tasks
  /\ tasks[i].pc = "regenerateConfig"
  /\ IF r.success
     THEN /\ server' = [server EXCEPT !.configuration = GeneratedDoc]
          /\ operationStatus' =
               [type |-> "success",
                message |-> "Configuration regenerated with "
                            \o ToString(Len(server.models)) \o " models"]
          /\ timers' = Append(timers, ClearTimer(ClearShortMs, tasks[i].id, tasks[i].op))
          /\ tasks' = RemoveAt(tasks, i)
     ELSE /\ Catch(i, ErrorOr(r, "Failed to reconfigure"), ClearMediumMs)
          /\ UNCHANGED server
  /\ signal' = NoSignal
  /\ UNCHANGED << configInfo, actualBackend, loading, error, selectedBackend, jsonConfig,
                  jsonError, modelConfigs, hasUnsavedChanges, intentsLeft, shellVars >>

\* after `await llamaSwap.regenerateConfig()`
regenerateConfigDone(i, r) ==
  /\ i \in DOMAIN tasks
  /\ tasks[i].pc = "regenerateConfig"
  /\ IF r.success
     THEN /\ server' = [server EXCEPT !.configuration = GeneratedDoc]
          /\ operationStatus' =
               [type |-> "success",
                message |-> "Configuration regenerated with "
                            \o ToString(Len(server.models)) \o " models"]
          /\ StartReload(i, ClearShortMs)
          /\ UNCHANGED timers
     ELSE /\ Catch(i, ErrorOr(r, "Failed to reconfigure"), ClearMediumMs)
          /\ UNCHANGED << loading, error, server >>
  /\ signal' = NoSignal
  /\ UNCHANGED << configInfo, actualBackend, selectedBackend, jsonConfig, jsonError,
                  modelConfigs, hasUnsavedChanges, intentsLeft, shellVars >>

\* ---------------------------------------------- handleRestartWithOverrides
RestartButtonDisabled == isOperationInProgress

RestartProgressTimers(id) ==
  << ProgressTimer(Progress1Ms, id, "RestartWithOverrides",
                   "Applying configuration..."),
     ProgressTimer(Progress2Ms, id, "RestartWithOverrides",
                   "Starting service with new settings...") >>

handleRestartWithOverrides ==
  /\ Accepted
  /\ operationStatus' = [type |-> "restarting",
                         message |-> "Stopping service..."]
  /\ timers' = timers \o RestartProgressTimers(intentsLeft)
  /\ tasks' = Append(tasks, Task(intentsLeft, "RestartWithOverrides",
                                 "restartWithOverrides", "", << >>))
  /\ UNCHANGED << configInfo, actualBackend, loading, error, selectedBackend, jsonConfig,
                  jsonError, modelConfigs, hasUnsavedChanges, server >>

RestartButton ==
  /\ Rendered
  /\ IF RestartButtonDisabled
     THEN Rejected
     ELSE handleRestartWithOverrides

\* after `await llamaSwap.restartWithOverrides()` in handleRestartWithOverrides
restartWithOverridesDone(i, r) ==
  /\ i \in DOMAIN tasks
  /\ tasks[i].op = "RestartWithOverrides"
  /\ tasks[i].pc = "restartWithOverrides"
  /\ IF r.success
     THEN /\ operationStatus' = [type |-> "success",
                                 message |-> "Service restarted successfully!"]
          /\ StartReload(i, ClearShortMs)
          /\ UNCHANGED timers
     ELSE /\ Catch(i, ErrorOr(r, "Failed to restart service"), ClearMediumMs)
          /\ UNCHANGED << loading, error >>
  /\ signal' = NoSignal
  /\ UNCHANGED << configInfo, actualBackend, selectedBackend, jsonConfig, jsonError,
                  modelConfigs, hasUnsavedChanges, server, intentsLeft, shellVars >>

\* --------------------------------------------------------- the JSON editor
\* configInfo?.configuration ? JSON.stringify(configInfo.configuration, null, 2) : ''
originalConfig ==
  IF configInfo.configuration # Null
  THEN JSONstringify(configInfo.configuration)
  ELSE ""

\* onChange of the textarea
handleJsonChange(value) ==
  /\ Rendered
  /\ jsonConfig' = value
  /\ hasUnsavedChanges' = (value # originalConfig)
  /\ jsonError' = IF JSONparse(value) # ParseError THEN Null ELSE ParseError
  /\ signal' = NoSignal
  /\ UNCHANGED << configInfo, actualBackend, loading, error, selectedBackend, modelConfigs,
                  operationStatus, tasks, timers, server, intentsLeft, shellVars >>

\* reader.onload of the imported file
importConfiguration(content) ==
  /\ Rendered
  /\ IF JSONparse(content) # ParseError
     THEN jsonConfig' = content /\ jsonError' = Null
     ELSE jsonError' = "Invalid JSON file" /\ UNCHANGED jsonConfig
  /\ signal' = NoSignal
  /\ UNCHANGED << configInfo, actualBackend, loading, error, selectedBackend, modelConfigs,
                  operationStatus, hasUnsavedChanges, tasks, timers, server,
                  intentsLeft, shellVars >>

\* Variant: the save buttons do not look at jsonError.
SaveButtonDisabledWithoutValidation ==
  isOperationInProgress \/ ~hasUnsavedChanges

\* disabled={isOperationInProgress || !!jsonError || !hasUnsavedChanges}
SaveButtonDisabled ==
  isOperationInProgress \/ jsonError # Null \/ ~hasUnsavedChanges

ValidationStatus ==
  [type |-> "error", message |-> "Cannot save configuration with JSON errors"]

\* -------------------------------------------------------- saveConfiguration
saveConfiguration ==
  /\ Accepted
  /\ IF jsonError # Null
     THEN /\ operationStatus' = ValidationStatus
          /\ UNCHANGED tasks
     ELSE /\ operationStatus' = [type |-> "saving",
                                 message |-> "Saving configuration..."]
          /\ tasks' = Append(tasks, Task(intentsLeft, "SaveConfig",
                                         "saveConfigFromJson", jsonConfig, << >>))
  /\ UNCHANGED << configInfo, actualBackend, loading, error, selectedBackend, jsonConfig,
                  jsonError, modelConfigs, hasUnsavedChanges, timers, server >>

SaveButton ==
  /\ Rendered
  /\ IF SaveButtonDisabled
     THEN Rejected
     ELSE saveConfiguration

\* Variant of the continuation that leaves hasUnsavedChanges alone.
saveConfigFromJsonKeepsDirty(i, r, requiresRestart) ==
  /\ i \in DOMAIN tasks
  /\ tasks[i].pc = "saveConfigFromJson"
  /\ r.success => JSONparse(tasks[i].arg) # ParseError
  /\ IF r.success
     THEN /\ server' = [server EXCEPT !.configuration = JSONparse(tasks[i].arg)]
          /\ operationStatus' =
               [type |-> "success",
                message |-> IF requiresRestart
                            THEN "Configuration saved successfully! Restart recommended"
                            ELSE "Configuration saved successfully!"]
          /\ StartReload(i, IF requiresRestart THEN ClearLongMs ELSE ClearShortMs)
          /\ UNCHANGED timers
     ELSE /\ ~requiresRestart
          /\ Catch(i, ErrorOr(r, "Failed to save configuration"), ClearLongMs)
          /\ UNCHANGED << loading, error, server >>
  /\ signal' = NoSignal
  /\ UNCHANGED << configInfo, actualBackend, selectedBackend, jsonConfig, jsonError,
                  modelConfigs, hasUnsavedChanges, intentsLeft, shellVars >>

\* after `await llamaSwap.saveConfigFromJson(jsonConfig)`; requiresRestart is
\* result.requiresRestart?.required
saveConfigFromJsonDone(i, r, requiresRestart) ==
  /\ i \in DOMAIN tasks
  /\ tasks[i].pc = "saveConfigFromJson"
  /\ r.success => JSONparse(tasks[i].arg) # ParseError
  /\ IF r.success
     THEN /\ server' = [server EXCEPT !.configuration = JSONparse(tasks[i].arg)]
          /\ operationStatus' =
               [type |-> "success",
                message |-> IF requiresRestart
                            THEN "Configuration saved successfully! Restart recommended"
                            ELSE "Configuration saved successfully!"]
          /\ hasUnsavedChanges' = FALSE
          /\ StartReload(i, IF requiresRestart THEN ClearLongMs ELSE ClearShortMs)
          /\ UNCHANGED timers
     ELSE /\ ~requiresRestart
          /\ Catch(i, ErrorOr(r, "Failed to save configuration"), ClearLongMs)
          /\ UNCHANGED << loading, error, server, hasUnsavedChanges >>
  /\ signal' = NoSignal
  /\ UNCHANGED << configInfo, actualBackend, selectedBackend, jsonConfig, jsonError,
                  modelConfigs, intentsLeft, shellVars >>

\* ---------------------------------------------- saveConfigurationAndRestart
SaveRestartProgressTimers(id) ==
  << ProgressTimer(Progress1Ms, id, "SaveConfigAndRestart",
                   "Configuration saved, restarting service..."),
     ProgressTimer(Progress2Ms, id, "SaveConfigAndRestart",
                   "Applying new configuration...") >>

saveConfigurationAndRestart ==
  /\ Accepted
  /\ IF jsonError # Null
     THEN /\ operationStatus' = ValidationStatus
          /\ UNCHANGED << tasks, timers >>
     ELSE /\ operationStatus' = [type |-> "saving",
                                 message |-> "Saving configuration..."]
          /\ timers' = timers \o SaveRestartProgressTimers(intentsLeft)
          /\ tasks' = Append(tasks, Task(intentsLeft, "SaveConfigAndRestart",
                                         "saveConfigAndRestart", jsonConfig, << >>))
  /\ UNCHANGED << configInfo, actualBackend, loading, error, selectedBackend, jsonConfig,
                  jsonError, modelConfigs, hasUnsavedChanges, server >>

SaveRestartButton ==
  /\ Rendered
  /\ IF SaveButtonDisabled
     THEN Rejected
     ELSE saveConfigurationAndRestart

\* after `await llamaSwap.saveConfigAndRestart(jsonConfig)`
saveConfigAndRestartDone(i, r) ==
  /\ i \in DOMAIN tasks
  /\ tasks[i].pc = "saveConfigAndRestart"
  /\ r.success => JSONparse(tasks[i].arg) # ParseError
  /\ IF r.success
     THEN /\ server' = [server EXCEPT !.configuration = JSONparse(tasks[i].arg)]
          /\ operationStatus' =
               [type |-> "success",
                message |-> "Configuration saved and service restarted successfully!"]
          /\ hasUnsavedChanges' = FALSE
          /\ StartReload(i, ClearMediumMs)
          /\ UNCHANGED timers
     ELSE /\ Catch(i, ErrorOr(r, "Failed to save configuration and restart"),
                   ClearLongMs)
          /\ UNCHANGED << loading, error, server, hasUnsavedChanges >>
  /\ signal' = NoSignal
  /\ UNCHANGED << configInfo, actualBackend, selectedBackend, jsonConfig, jsonError,
                  modelConfigs, intentsLeft, shellVars >>


\* ------------------------------------------------------ the model registry
\* Indexes of the records named modelName (modelConfigs.find / .map).
ModelIndexes(modelName) ==
  {k \in DOMAIN modelConfigs : modelConfigs[k].name = modelName}

\* Variant that marks the registry dirty only when a record changes.
updateModelConfigIfChanged(modelName, value) ==
  /\ modelConfigs' = [k \in DOMAIN modelConfigs |->
                        IF modelConfigs[k].name = modelName
                        THEN [modelConfigs[k] EXCEPT !.gpuLayers = value]
                        ELSE modelConfigs[k]]
  /\ hasUnsavedChanges' = (hasUnsavedChanges \/ modelConfigs' # modelConfigs)
  /\ signal' = NoSignal
  /\ UNCHANGED << configInfo, actualBackend, loading, error, selectedBackend, jsonConfig,
                  jsonError, operationStatus, tasks, timers, server, intentsLeft, shellVars >>

\* updateModelConfig(modelName, 'gpuLayers', value)
updateModelConfig(modelName, value) ==
  /\ modelConfigs' = [k \in DOMAIN modelConfigs |->
                        IF modelConfigs[k].name = modelName
                        THEN [modelConfigs[k] EXCEPT !.gpuLayers = value]
                        ELSE modelConfigs[k]]
  /\ hasUnsavedChanges' = TRUE
  /\ signal' = NoSignal
  /\ UNCHANGED << configInfo, actualBackend, loading, error, selectedBackend, jsonConfig,
                  jsonError, operationStatus, tasks, timers, server, intentsLeft, shellVars >>

\* onChange of the gpuLayers input of a rendered model row
ModelFieldInput(modelName, value) ==
  /\ Rendered
  /\ ModelIndexes(modelName) # {}
  /\ updateModelConfig(modelName, value)

SaveModelButtonDisabled == isOperationInProgress

saveModelConfiguration(modelName) ==
  /\ Accepted
  /\ IF ModelIndexes(modelName) = {}
     THEN /\ operationStatus' = [type |-> "error",
                                 message |-> "Model configuration not found"]
          /\ timers' = Append(timers, ClearTimer(ClearMediumMs, intentsLeft, "SaveModel"))
          /\ UNCHANGED tasks
     ELSE /\ operationStatus' = [type |-> "saving",
                                 message |-> "Saving configuration for "
                                             \o modelName \o "..."]
          /\ tasks' = Append(tasks,
               Task(intentsLeft, "SaveModel", "saveModelConfiguration", modelName,
                    << modelConfigs[CHOOSE k \in ModelIndexes(modelName) :
                         \A j \in ModelIndexes(modelName) : k <= j] >>))
          /\ UNCHANGED timers
  /\ UNCHANGED << configInfo, actualBackend, loading, error, selectedBackend, jsonConfig,
                  jsonError, modelConfigs, hasUnsavedChanges, server >>

\* The Save button of a rendered model row.
SaveModelButton(modelName) ==
  /\ Rendered
  /\ ModelIndexes(modelName) # {}
  /\ IF SaveModelButtonDisabled
     THEN Rejected
     ELSE saveModelConfiguration(modelName)

\* The control plane stores one model record.
StoreModel(models, record) ==
  [k \in DOMAIN models |->
     IF models[k].name = record.name THEN record ELSE models[k]]

\* after `await llamaSwap.saveModelConfiguration(modelName, modelConfig)`
saveModelConfigurationDone(i, r) ==
  /\ i \in DOMAIN tasks
  /\ tasks[i].pc = "saveModelConfiguration"
  /\ IF r.success
     THEN /\ server' = [server EXCEPT
                          !.models = StoreModel(@, tasks[i].payload[1])]
          /\ operationStatus' = [type |-> "success",
                                 message |-> "Configuration saved for "
                                             \o tasks[i].arg]
          /\ hasUnsavedChanges' = FALSE
          /\ timers' = Append(timers, ClearTimer(ClearShortMs, tasks[i].id, tasks[i].op))
          /\ tasks' = RemoveAt(tasks, i)
     ELSE /\ Catch(i, ErrorOr(r, "Failed to save model configuration"),
                   ClearMediumMs)
          /\ UNCHANGED << server, hasUnsavedChanges >>
  /\ signal' = NoSignal
  /\ UNCHANGED << configInfo, actualBackend, loading, error, selectedBackend, jsonConfig,
                  jsonError, modelConfigs, intentsLeft, shellVars >>

\* disabled={isOperationInProgress || !hasUnsavedChanges}
SaveAllButtonDisabled == isOperationInProgress \/ ~hasUnsavedChanges

saveAllModelConfigurations ==
  /\ Accepted
  /\ operationStatus' = [type |-> "saving",
                         message |-> "Saving all model configurations..."]
  /\ tasks' = Append(tasks, Task(intentsLeft, "SaveAllModels",
                                 "saveAllModelConfigurations", "", modelConfigs))
  /\ UNCHANGED << configInfo, actualBackend, loading, error, selectedBackend, jsonConfig,
                  jsonError, modelConfigs, hasUnsavedChanges, timers, server >>

\* The Save All Models button (rendered when the model list is not empty).
SaveAllButton ==
  /\ Rendered
  /\ modelConfigs # << >>
  /\ IF SaveAllButtonDisabled
     THEN Rejected
     ELSE saveAllModelConfigurations

\* Variant of the continuation whose failure path clears the flag as well.
saveAllModelConfigurationsClearsOnFailure(i, r) ==
  /\ i \in DOMAIN tasks
  /\ tasks[i].pc = "saveAllModelConfigurations"
  /\ IF r.success
     THEN /\ server' = [server EXCEPT !.models = tasks[i].payload]
          /\ operationStatus' =
               [type |-> "success",
                message |-> "All model configurations saved successfully!"]
          /\ timers' = Append(timers, ClearTimer(ClearShortMs, tasks[i].id, tasks[i].op))
          /\ tasks' = RemoveAt(tasks, i)
     ELSE /\ Catch(i, ErrorOr(r, "Failed to save model configurations"),
                   ClearMediumMs)
          /\ UNCHANGED server
  /\ hasUnsavedChanges' = FALSE
  /\ signal' = NoSignal
  /\ UNCHANGED << configInfo, actualBackend, loading, error, selectedBackend, jsonConfig,
                  jsonError, modelConfigs, intentsLeft, shellVars >>

\* after `await llamaSwap.saveAllModelConfigurations(modelConfigs)`
saveAllModelConfigurationsDone(i, r) ==
  /\ i \in DOMAIN tasks
  /\ tasks[i].pc = "saveAllModelConfigurations"
  /\ IF r.success
     THEN /\ server' = [server EXCEPT !.models = tasks[i].payload]
          /\ operationStatus' =
               [type |-> "success",
                message |-> "All model configurations saved successfully!"]
          /\ hasUnsavedChanges' = FALSE
          /\ timers' = Append(timers, ClearTimer(ClearShortMs, tasks[i].id, tasks[i].op))
          /\ tasks' = RemoveAt(tasks, i)
     ELSE /\ Catch(i, ErrorOr(r, "Failed to save model configurations"),
                   ClearMediumMs)
          /\ UNCHANGED << server, hasUnsavedChanges >>
  /\ signal' = NoSignal
  /\ UNCHANGED << configInfo, actualBackend, loading, error, selectedBackend, jsonConfig,
                  jsonError, modelConfigs, intentsLeft, shellVars >>

\* ---------------------------------------------------------- specification
\* The component has mounted: every cell holds its useState initial value
\* and the mount effect has called loadConfigurationInfo.
InitWith(budget) ==
  /\ configInfo = NoConfigInfo
  /\ loading = TRUE
  /\ error = Null
  /\ selectedBackend = "auto"
  /\ actualBackend = ""
  /\ jsonConfig = ""
  /\ jsonError = Null
  /\ modelConfigs = << >>
  /\ operationStatus = IdleStatus
  /\ hasUnsavedChanges = FALSE
  /\ tasks = << Task(0, "load", "getConfigurationInfo", "", << >>) >>
  /\ timers = << >>
  /\ server \in [override : {Null}, configuration : {Null, GeneratedDoc},
                  models : {InitialModels}, currentBackendName : {""}]
  /\ intentsLeft = budget
  /\ signal = NoSignal
  /\ ShellAtRest

Init == InitWith(MaxIntents)

Next ==
  \/ \E i \in DOMAIN timers : FireTimer(i)
  \/ Tick
  \/ \E i \in DOMAIN tasks, r \in Results : getConfigurationInfoDone(i, r)
  \/ \E i \in DOMAIN tasks, r \in Results : getModelConfigurationsDone(i, r)
  \/ RetryButton
  \/ \E b \in BackendChoices : BackendButton(b)
  \/ \E i \in DOMAIN tasks, r \in Results : setBackendOverrideDone(i, r)
  \/ \E i \in DOMAIN tasks, r \in Results : backendRestartDone(i, r)
  \/ ReconfigureButton
  \/ \E i \in DOMAIN tasks, r \in Results : regenerateConfigDone(i, r)
  \/ RestartButton
  \/ \E i \in DOMAIN tasks, r \in Results : restartWithOverridesDone(i, r)
  \/ \E value \in TypedTexts : handleJsonChange(value)
  \/ \E content \in FileTexts : importConfiguration(content)
  \/ SaveButton
  \/ \E i \in DOMAIN tasks, r \in Results, rr \in BOOLEAN :
       saveConfigFromJsonDone(i, r, rr)
  \/ SaveRestartButton
  \/ \E i \in DOMAIN tasks, r \in Results : saveConfigAndRestartDone(i, r)
  \/ \E m \in ModelNames, v \in GpuLayerValues : ModelFieldInput(m, v)
  \/ \E m \in ModelNames : SaveModelButton(m)
  \/ \E i \in DOMAIN tasks, r \in Results : saveModelConfigurationDone(i, r)
  \/ SaveAllButton
  \/ \E i \in DOMAIN tasks, r \in Results : saveAllModelConfigurationsDone(i, r)

Spec == Init /\ [][Next]_vars

\* The event loop runs every due callback, time passes, and every remote
\* call returns; the user is under no obligation to click.
Fairness ==
  /\ WF_vars(Tick)
  /\ WF_vars(\E i \in DOMAIN timers : FireTimer(i))
  /\ WF_vars(\E i \in DOMAIN tasks, r \in Results :
               \/ getConfigurationInfoDone(i, r)
               \/ getModelConfigurationsDone(i, r)
               \/ setBackendOverrideDone(i, r)
               \/ backendRestartDone(i, r)
               \/ regenerateConfigDone(i, r)
               \/ restartWithOverridesDone(i, r)
               \/ saveConfigFromJsonDone(i, r, FALSE)
               \/ saveConfigAndRestartDone(i, r)
               \/ saveModelConfigurationDone(i, r)
               \/ saveAllModelConfigurationsDone(i, r))

FairSpec == Spec /\ Fairness

\* Behaviours with more intents and fewer kinds of step.  RefusedResults: the
\* control plane refuses a mutation call.
RefusedResults == Results \ {OkResult}

\* SpecBusy: every button and every edit, and the control plane (which
\* answers the reads) refuses every mutation.
BusyInit == InitWith(MaxBusyIntents)

BusyNext ==
  \/ \E i \in DOMAIN timers : FireTimer(i)
  \/ Tick
  \/ \E i \in DOMAIN tasks, r \in Results : getConfigurationInfoDone(i, r)
  \/ \E i \in DOMAIN tasks, r \in Results : getModelConfigurationsDone(i, r)
  \/ RetryButton
  \/ \E b \in BackendChoices : BackendButton(b)
  \/ \E i \in DOMAIN tasks, r \in RefusedResults : setBackendOverrideDone(i, r)
  \/ ReconfigureButton
  \/ \E i \in DOMAIN tasks, r \in RefusedResults : regenerateConfigDone(i, r)
  \/ RestartButton
  \/ \E i \in DOMAIN tasks, r \in RefusedResults : restartWithOverridesDone(i, r)
  \/ \E value \in TypedTexts : handleJsonChange(value)
  \/ \E content \in FileTexts : importConfiguration(content)
  \/ SaveButton
  \/ \E i \in DOMAIN tasks, r \in RefusedResults :
       saveConfigFromJsonDone(i, r, FALSE)
  \/ SaveRestartButton
  \/ \E i \in DOMAIN tasks, r \in RefusedResults : saveConfigAndRestartDone(i, r)
  \/ \E m \in ModelNames, v \in GpuLayerValues : ModelFieldInput(m, v)
  \/ \E m \in ModelNames : SaveModelButton(m)
  \/ \E i \in DOMAIN tasks, r \in RefusedResults :
       saveModelConfigurationDone(i, r)
  \/ SaveAllButton
  \/ \E i \in DOMAIN tasks, r \in RefusedResults :
       saveAllModelConfigurationsDone(i, r)

SpecBusy == BusyInit /\ [][BusyNext]_vars

\* SpecOps: the user presses only the backend, reconfigure and restart
\* buttons and makes no edits; the control plane refuses setBackendOverride.
OpsInit == InitWith(MaxOpsIntents)

OpsNext ==
  \/ \E i \in DOMAIN timers : FireTimer(i)
  \/ Tick
  \/ \E i \in DOMAIN tasks, r \in Results : getConfigurationInfoDone(i, r)
  \/ \E i \in DOMAIN tasks, r \in Results : getModelConfigurationsDone(i, r)
  \/ \E b \in BackendChoices : BackendButton(b)
  \/ \E i \in DOMAIN tasks, r \in RefusedResults : setBackendOverrideDone(i, r)
  \/ ReconfigureButton
  \/ \E i \in DOMAIN tasks, r \in Results : regenerateConfigDone(i, r)
  \/ RestartButton
  \/ \E i \in DOMAIN tasks, r \in Results : restartWithOverridesDone(i, r)

SpecOps == OpsInit /\ [][OpsNext]_vars

\* SpecRegistry: the model registry alone.  updateModelConfig is called with
\* any name, known to the edit buffer or not; the user saves one model or all.
PatchNames == ModelNames \cup {"m2"}

PatchCall(modelName, value) ==
  /\ Rendered
  /\ updateModelConfig(modelName, value)

RegistryInit == InitWith(MaxRegistryIntents)

RegistryNext ==
  \/ \E i \in DOMAIN timers : FireTimer(i)
  \/ Tick
  \/ \E i \in DOMAIN tasks, r \in Results : getConfigurationInfoDone(i, r)
  \/ \E i \in DOMAIN tasks, r \in Results : getModelConfigurationsDone(i, r)
  \/ \E m \in ModelNames, v \in GpuLayerValues : ModelFieldInput(m, v)
  \/ \E m \in PatchNames, v \in GpuLayerValues : PatchCall(m, v)
  \/ \E m \in ModelNames : SaveModelButton(m)
  \/ \E i \in DOMAIN tasks, r \in Results : saveModelConfigurationDone(i, r)
  \/ SaveAllButton
  \/ \E i \in DOMAIN tasks, r \in Results : saveAllModelConfigurationsDone(i, r)

SpecRegistry == RegistryInit /\ [][RegistryNext]_vars

\* SpecModels: the control plane holds two models; the user changes their
\* fields and saves one model or all.
TwoModelNames == {"m1", "m2"}
TwoModels == << [name |-> "m1", gpuLayers |-> 10],
                [name |-> "m2", gpuLayers |-> 10] >>

ModelsInit ==
  /\ configInfo = NoConfigInfo
  /\ loading = TRUE
  /\ error = Null
  /\ selectedBackend = "auto"
  /\ actualBackend = ""
  /\ jsonConfig = ""
  /\ jsonError = Null
  /\ modelConfigs = << >>
  /\ operationStatus = IdleStatus
  /\ hasUnsavedChanges = FALSE
  /\ tasks = << Task(0, "load", "getConfigurationInfo", "", << >>) >>
  /\ timers = << >>
  /\ server = [override |-> Null, configuration |-> GeneratedDoc,
               models |-> TwoModels, currentBackendName |-> ""]
  /\ intentsLeft = MaxModelsIntents
  /\ signal = NoSignal
  /\ ShellAtRest

ModelsNext ==
  \/ \E i \in DOMAIN timers : FireTimer(i)
  \/ Tick
  \/ \E i \in DOMAIN tasks, r \in Results : getConfigurationInfoDone(i, r)
  \/ \E i \in DOMAIN tasks, r \in Results : getModelConfigurationsDone(i, r)
  \/ \E m \in TwoModelNames, v \in GpuLayerValues : ModelFieldInput(m, v)
  \/ \E m \in TwoModelNames : SaveModelButton(m)
  \/ \E i \in DOMAIN tasks, r \in Results : saveModelConfigurationDone(i, r)
  \/ SaveAllButton
  \/ \E i \in DOMAIN tasks, r \in Results : saveAllModelConfigurationsDone(i, r)

SpecModels == ModelsInit /\ [][ModelsNext]_vars

\* --------------------------------------------------------------------------
\* The backend selector: the control plane starts with any stored override
\* and any active backend name, and the service's active backend changes
\* on its own (the service stops, or comes up on another backend).
ServiceStatusChange(name) ==
  /\ name # server.currentBackendName
  /\ server' = [server EXCEPT !.currentBackendName = name]
  /\ signal' = NoSignal
  /\ UNCHANGED << uiVars, tasks, timers, intentsLeft, shellVars >>

SelectorInit ==
  /\ configInfo = NoConfigInfo
  /\ loading = TRUE
  /\ error = Null
  /\ selectedBackend = "auto"
  /\ actualBackend = ""
  /\ jsonConfig = ""
  /\ jsonError = Null
  /\ modelConfigs = << >>
  /\ operationStatus = IdleStatus
  /\ hasUnsavedChanges = FALSE
  /\ tasks = << Task(0, "load", "getConfigurationInfo", "", << >>) >>
  /\ timers = << >>
  /\ server \in [override : StoredOverrides, configuration : {GeneratedDoc},
                  models : {InitialModels},
                  currentBackendName : ActiveBackendNames]
  /\ intentsLeft = MaxSelectorIntents
  /\ signal = NoSignal
  /\ ShellAtRest

SelectorNext ==
  \/ \E i \in DOMAIN timers : FireTimer(i)
  \/ Tick
  \/ \E i \in DOMAIN tasks, r \in Results : getConfigurationInfoDone(i, r)
  \/ \E i \in DOMAIN tasks, r \in Results : getModelConfigurationsDone(i, r)
  \/ RetryButton
  \/ \E b \in BackendChoices : BackendButton(b)
  \/ \E i \in DOMAIN tasks, r \in Results : setBackendOverrideDone(i, r)
  \/ \E i \in DOMAIN tasks, r \in Results : backendRestartDone(i, r)
  \/ ReconfigureButton
  \/ \E i \in DOMAIN tasks, r \in Results : regenerateConfigDone(i, r)
  \/ \E name \in ActiveBackendNames : ServiceStatusChange(name)

SpecSelector == SelectorInit /\ [][SelectorNext]_vars

\* --------------------------------------------------------------------------
\* useTheme: the theme hook of the application shell.
panelVars == << uiVars, tasks, timers, server, intentsLeft, signal >>

\* The panel while the shell is looked at: mounted, its first load awaited.
PanelAtRest ==
  /\ configInfo = NoConfigInfo
  /\ loading = TRUE
  /\ error = Null
  /\ selectedBackend = "auto"
  /\ actualBackend = ""
  /\ jsonConfig = ""
  /\ jsonError = Null
  /\ modelConfigs = << >>
  /\ operationStatus = IdleStatus
  /\ hasUnsavedChanges = FALSE
  /\ tasks = << Task(0, "load", "getConfigurationInfo", "", << >>) >>
  /\ timers = << >>
  /\ server = [override |-> Null, configuration |-> Null,
               models |-> InitialModels, currentBackendName |-> ""]
  /\ intentsLeft = 0
  /\ signal = NoSignal

Modes == {"light", "dark"}
Brands == {"default", "brand-alpha", "brand-beta", "brand-gamma"}
BrandClasses == Brands \ {"default"}

\* const getInitialMode: the stored mode, else the system preference
getInitialMode(prefersDark) ==
  IF localStorage.themeMode # Null
  THEN localStorage.themeMode
  ELSE IF prefersDark THEN "dark" ELSE "light"

\* const getInitialBrand: storedBrand || 'default'
getInitialBrand ==
  IF localStorage.themeBrand # Null THEN localStorage.themeBrand ELSE "default"

\* root.classList after applyTheme(newMode, newBrand); closureBrand is the
\* `brand` the callback closes over (dependency array [brand]).
ClassesAfterApply(closureBrand, newMode, newBrand) ==
  LET noMode == classList \ {"light-mode", "dark-mode"}
      noOwn == IF closureBrand # "default" THEN noMode \ {closureBrand} ELSE noMode
      noNew == IF newBrand # "default" THEN noOwn \ {newBrand} ELSE noOwn
      withMode == noNew \cup {IF newMode = "dark" THEN "dark-mode" ELSE "light-mode"}
  IN  IF newBrand # "default" THEN withMode \cup {newBrand} ELSE withMode

applyTheme(closureBrand, newMode, newBrand) ==
  /\ classList' = ClassesAfterApply(closureBrand, newMode, newBrand)
  /\ localStorage' = [localStorage EXCEPT !.themeMode = newMode,
                                          !.themeBrand = newBrand]

\* useEffect(() => applyTheme(mode, brand), [mode, brand, applyTheme]): the
\* callback of the render that committed, which closes over that render's
\* brand.
ThemeEffect ==
  /\ themeEffectDue
  /\ applyTheme(brand, mode, brand)
  /\ themeEffectDue' = FALSE
  /\ UNCHANGED << mode, brand, activePage, showOnboarding, userInfoPending,
                  appPhase, effectDeps, panelVars >>

\* Effects are flushed before the next event is handled.
toggleMode ==
  /\ ~themeEffectDue
  /\ mode' = IF mode = "light" THEN "dark" ELSE "light"
  /\ themeEffectDue' = TRUE
  /\ UNCHANGED << brand, classList, localStorage, activePage, showOnboarding,
                  userInfoPending, appPhase, effectDeps, panelVars >>

\* changeBrand / setBrand; a call with the current brand renders nothing.
changeBrand(newBrand) ==
  /\ ~themeEffectDue
  /\ newBrand # brand
  /\ brand' = newBrand
  /\ themeEffectDue' = TRUE
  /\ UNCHANGED << mode, classList, localStorage, activePage, showOnboarding,
                  userInfoPending, appPhase, effectDeps, panelVars >>

ThemeInit ==
  /\ PanelAtRest
  /\ localStorage \in [themeMode : Modes \cup {Null},
                        themeBrand : Brands \cup {Null},
                        activePage : {"settings"}, current_app_id : {Null}]
  /\ \E prefersDark \in BOOLEAN : mode = getInitialMode(prefersDark)
  /\ brand = getInitialBrand
  /\ classList = {}
  /\ themeEffectDue = TRUE
  /\ activePage = "settings"
  /\ showOnboarding = FALSE
  /\ userInfoPending = FALSE
  /\ appPhase = "idle"
  /\ effectDeps = "settings"

ThemeNext ==
  \/ ThemeEffect
  \/ toggleMode
  \/ \E newBrand \in Brands : changeBrand(newBrand)

SpecTheme == ThemeInit /\ [][ThemeNext]_vars

\* --------------------------------------------------------------------------
\* App: the page the shell shows.
Pages == {"dashboard", "apps", "app-runner", "app-creator"}
AppIds == {Null, "app-1"}

themeVars == << mode, brand, classList, themeEffectDue >>

\* activePage === 'app-runner' && !appId
RunnerWithoutApp ==
  activePage = "app-runner" /\ localStorage.current_app_id = Null

\* App renders.  renderContent (not called while the onboarding is shown)
\* calls setActivePage('apps') for the runner without an app id: the render
\* is thrown away and App renders again.  Otherwise the render commits, and
\* the activePage effects are due when activePage is not the one they last
\* ran for.
AppRender ==
  /\ appPhase = "render"
  /\ IF ~showOnboarding /\ RunnerWithoutApp
     THEN /\ activePage' = "apps"
          /\ UNCHANGED appPhase
     ELSE /\ appPhase' = IF effectDeps # activePage THEN "effects" ELSE "idle"
          /\ UNCHANGED activePage
  /\ UNCHANGED << localStorage, showOnboarding, userInfoPending, effectDeps,
                  themeVars, panelVars >>

\* Variant of the effects that does not store the page.
AppEffectsWithoutStore ==
  /\ appPhase = "effects"
  /\ effectDeps' = activePage
  /\ IF RunnerWithoutApp
     THEN activePage' = "apps" /\ appPhase' = "render"
     ELSE appPhase' = "idle" /\ UNCHANGED activePage
  /\ UNCHANGED << localStorage, showOnboarding, userInfoPending, themeVars,
                  panelVars >>

\* The two useEffect(..., [activePage]) run after the commit: the first
\* calls setActivePage('apps') for the runner without an app id (App renders
\* again afterwards), the second stores the page.
AppEffects ==
  /\ appPhase = "effects"
  /\ localStorage' = [localStorage EXCEPT !.activePage = activePage]
  /\ effectDeps' = activePage
  /\ IF RunnerWithoutApp
     THEN activePage' = "apps" /\ appPhase' = "render"
     ELSE appPhase' = "idle" /\ UNCHANGED activePage
  /\ UNCHANGED << showOnboarding, userInfoPending, themeVars, panelVars >>

\* A child calls onPageChange(page) = setActivePage(page); the same page
\* renders nothing.
onPageChange(page) ==
  /\ appPhase = "idle"
  /\ page # activePage
  /\ activePage' = page
  /\ appPhase' = "render"
  /\ UNCHANGED << localStorage, showOnboarding, userInfoPending, effectDeps,
                  themeVars, panelVars >>

\* checkUserInfo, after `await db.getPersonalInfo()`
checkUserInfoDone(hasName) ==
  /\ userInfoPending
  /\ appPhase = "idle"
  /\ userInfoPending' = FALSE
  /\ showOnboarding' = ~hasName
  /\ appPhase' = "render"
  /\ UNCHANGED << activePage, localStorage, effectDeps, themeVars, panelVars >>

handleOnboardingComplete ==
  /\ showOnboarding
  /\ appPhase = "idle"
  /\ showOnboarding' = FALSE
  /\ appPhase' = "render"
  /\ UNCHANGED << activePage, localStorage, userInfoPending, effectDeps,
                  themeVars, panelVars >>

\* useState(() => localStorage.getItem('activePage') || 'dashboard'); the
\* first render is due, the effects have not run.
AppInit ==
  /\ PanelAtRest
  /\ mode = "light"
  /\ brand = "default"
  /\ classList = {"light-mode"}
  /\ themeEffectDue = FALSE
  /\ localStorage \in [themeMode : {"light"}, themeBrand : {"default"},
                        activePage : Pages \cup {Null},
                        current_app_id : AppIds]
  /\ activePage = IF localStorage.activePage # Null
                  THEN localStorage.activePage
                  ELSE "dashboard"
  /\ showOnboarding = FALSE
  /\ userInfoPending = TRUE
  /\ appPhase = "render"
  /\ effectDeps = Null

AppNext ==
  \/ AppRender
  \/ AppEffects
  \/ \E page \in Pages : onPageChange(page)
  \/ \E hasName \in BOOLEAN : checkUserInfoDone(hasName)
  \/ handleOnboardingComplete

SpecApp == AppInit /\ [][AppNext]_vars

\* React finishes a render it has started and runs the effects of a commit;
\* nobody has to navigate.
FairSpecApp == SpecApp /\ WF_vars(AppRender) /\ WF_vars(AppEffects)

\* ------------------------------------------------------------------ claims
phase == operationStatus.type

InFlightPhases == {"saving", "reconfiguring", "restarting"}

\* Tasks whose remote mutation call is outstanding.
OutstandingMutations == {i \in DOMAIN tasks : tasks[i].pc \in MutationCalls}

\* The step is a click on one of the seven operation buttons.
ClickStep ==
  \/ \E b \in BackendChoices : BackendButton(b)
  \/ ReconfigureButton
  \/ RestartButton
  \/ SaveButton
  \/ SaveRestartButton
  \/ \E m \in ModelNames : SaveModelButton(m)
  \/ SaveAllButton

\* C1: at most one operation has a remote mutation call outstanding at any
\* instant.
C1_SingleFlight == Cardinality(OutstandingMutations) <= 1

\* C2: while the phase is saving, reconfiguring or restarting, a click on any
\* of the seven operation buttons is rejected: it changes neither the status
\* nor anything else, starts no handler and issues no remote call.
C2_BusyGuard ==
  [][(phase \in InFlightPhases /\ ClickStep)
       => /\ signal' = "rejected"
          /\ UNCHANGED << uiVars, tasks, timers, server, intentsLeft >>]_vars

C2_Witness ==
  /\ signal = "rejected"
  /\ phase \in InFlightPhases
  /\ OutstandingMutations # {}

\* A ChangeBackend whose setBackendOverride or restart call is outstanding.
BackendInFlight ==
  \E i \in DOMAIN tasks :
    /\ tasks[i].op = "ChangeBackend"
    /\ tasks[i].pc \in {"setBackendOverride", "restartWithOverrides"}

\* C3: a ChangeBackend(y) issued while a ChangeBackend(x) is in flight is
\* rejected (no second setBackendOverride is issued), and once the override
\* call of x has returned the effective override is x.
C3_SecondBackendRejected ==
  /\ [][\A y \in BackendChoices :
         (BackendInFlight /\ BackendButton(y))
           => (signal' = "rejected" /\ tasks' = tasks)]_vars
  /\ [](\A i \in DOMAIN tasks :
         (tasks[i].op = "ChangeBackend" /\ tasks[i].pc = "restartWithOverrides")
           => selectedBackend = tasks[i].arg)

\* The invocation that scheduled timer t still awaits its mutation call, so
\* it has not yet put the phase in success or error.
OwnerAwaiting(t) ==
  \E k \in DOMAIN tasks : tasks[k].id = t.owner /\ tasks[k].pc \in MutationCalls

\* C4: a progress-message timer never changes the status once the operation
\* that scheduled it has put the phase in success or error.
C4_ProgressCancelled ==
  [][\A i \in DOMAIN timers :
       (FireTimer(i) /\ timers[i].kind = "progress"
          /\ operationStatus' # operationStatus)
         => OwnerAwaiting(timers[i])]_vars

\* C5: the auto-clear timer of an earlier operation never sets the phase to
\* idle while a later operation's mutation call is outstanding.
C5_ClearPreempted ==
  [][\A i \in DOMAIN timers :
       (FireTimer(i) /\ timers[i].kind = "clear")
         => ~\E k \in OutstandingMutations : tasks[k].id # timers[i].owner]_vars

C7_InvalidNeverSaved ==
  [][(SaveButton /\ JSONparse(jsonConfig) = ParseError)
       => (tasks' = tasks /\ hasUnsavedChanges' = hasUnsavedChanges)]_vars

\* C8: a Save or Save-and-Restart click refused by the validation gate (a
\* validation error is stored) changes no state: the status stays what it
\* was, no handler starts, no remote call is issued, no timer is scheduled.
C8_SyntaxRejected ==
  [][((SaveButton \/ SaveRestartButton) /\ jsonError # Null)
       => /\ signal' = "rejected"
          /\ UNCHANGED << uiVars, tasks, timers, server, intentsLeft >>]_vars

C8_Witness ==
  /\ signal = "rejected"
  /\ jsonConfig = "{"
  /\ jsonError # Null
  /\ hasUnsavedChanges
  /\ operationStatus = IdleStatus
  /\ tasks = << >>

\* Only ChangeBackend invocations (and loads) have a handler suspended or a
\* callback pending.
OnlyBackendChange ==
  /\ \A i \in DOMAIN tasks : tasks[i].op \in {"load", "ChangeBackend"}
  /\ \A i \in DOMAIN timers : timers[i].op = "ChangeBackend"

PhaseSequence == {<< "idle", "saving" >>, << "saving", "restarting" >>,
                  << "restarting", "success" >>, << "success", "idle" >>}

\* C9: a ChangeBackend(id) whose two remote calls succeed takes the phase
\* through idle, saving, restarting, success, idle and through no other
\* change of phase, and after its reload the selected backend is id.
C9_BackendPhaseSequence ==
  /\ [][(OnlyBackendChange /\ OnlyBackendChange' /\ phase' # phase
          /\ phase # "error" /\ phase' # "error")
         => << phase, phase' >> \in PhaseSequence]_vars
  /\ [][\A i \in DOMAIN tasks :
         (tasks[i].op = "ChangeBackend" /\ getModelConfigurationsDone(i, OkResult))
           => selectedBackend' = tasks[i].arg]_vars

\* C10: when setBackendOverride fails the phase becomes error with the
\* failure's message, the handler ends there (restartWithOverrides is not
\* called, no reload starts) and nothing else changes.
C10_AbortOnOverrideFailure ==
  [][\A i \in DOMAIN tasks, r \in Results :
       (setBackendOverrideDone(i, r) /\ ~r.success)
         => /\ operationStatus' =
                 [type |-> "error", message |-> ErrorOr(r, "Failed to set backend")]
            /\ \A k \in DOMAIN tasks' : tasks'[k].id # tasks[i].id
            /\ Len(tasks') = Len(tasks) - 1
            /\ UNCHANGED << loading, error, server, selectedBackend >>]_vars

C10_Witness ==
  /\ operationStatus = [type |-> "error", message |-> "Failed to set backend"]
  /\ \A i \in DOMAIN tasks : tasks[i].op # "ChangeBackend"
  /\ selectedBackend = "auto"
  /\ intentsLeft < MaxIntents

\* C11: when restartWithOverrides fails after setBackendOverride succeeded,
\* the phase becomes error with the failure's message, the handler ends (it
\* issues no further call, in particular no setBackendOverride), and the
\* selection shown and the override held by the control plane stay as the
\* first step left them.
C11_NoRollback ==
  [][\A i \in DOMAIN tasks, r \in Results :
       (backendRestartDone(i, r) /\ ~r.success)
         => /\ operationStatus' =
                 [type |-> "error",
                  message |-> ErrorOr(r, "Failed to restart service with new backend")]
            /\ \A k \in DOMAIN tasks' : tasks'[k].id # tasks[i].id
            /\ Len(tasks') = Len(tasks) - 1
            /\ UNCHANGED << selectedBackend, server, loading, error,
                            configInfo >>]_vars

C11_Witness ==
  /\ operationStatus = [type |-> "error",
                        message |-> "Failed to restart service with new backend"]
  /\ selectedBackend = "cuda"
  /\ server.override = "cuda"
  /\ configInfo.currentBackendOverride = Null
  /\ tasks = << >>

\* The remote call awaited by task i returns r.
RemoteCallDone(i, r) ==
  \/ getConfigurationInfoDone(i, r)
  \/ getModelConfigurationsDone(i, r)
  \/ setBackendOverrideDone(i, r)
  \/ backendRestartDone(i, r)
  \/ regenerateConfigDone(i, r)
  \/ restartWithOverridesDone(i, r)
  \/ \E rr \in BOOLEAN : saveConfigFromJsonDone(i, r, rr)
  \/ saveConfigAndRestartDone(i, r)
  \/ saveModelConfigurationDone(i, r)
  \/ saveAllModelConfigurationsDone(i, r)

\* C12: every remote call of an operation (the reads of its reload included)
\* that fails with a message m puts the phase in error with message m.
C12_NoFailureSwallowed ==
  [][\A i \in DOMAIN tasks, r \in Results :
       (tasks[i].op # "load" /\ ~r.success /\ r.error # ""
          /\ RemoteCallDone(i, r))
         => operationStatus' = [type |-> "error", message |-> r.error]]_vars

\* C13: updateModelConfig with a name that matches no record of the edit
\* buffer leaves every record and the unsaved-changes flag as they were.
C13_UnknownNameNoOp ==
  [][\A m \in PatchNames, v \in GpuLayerValues :
       (PatchCall(m, v) /\ ModelIndexes(m) = {})
         => UNCHANGED << modelConfigs, hasUnsavedChanges >>]_vars

\* C14: a change of a field of an existing model sets hasUnsavedChanges,
\* whether or not the value differs from the old one, and a successful save
\* of all models clears it.
C14_ModelDirtyTracking ==
  [][/\ \A m \in ModelNames, v \in GpuLayerValues :
          ModelFieldInput(m, v) => hasUnsavedChanges'
     /\ \A i \in DOMAIN tasks :
          saveAllModelConfigurationsDone(i, OkResult) => ~hasUnsavedChanges']_vars

\* The stored record differs from the initial one, so a save has succeeded
\* and cleared the flag; the buffer equals the stored list and the flag is
\* set again.
C14_Witness ==
  /\ hasUnsavedChanges
  /\ server.models # InitialModels
  /\ modelConfigs = server.models
  /\ operationStatus.message = "All model configurations saved successfully!"
  /\ tasks = << >>

\* C15: after an edit of the JSON buffer to a text that parses,
\* hasUnsavedChanges is false when the document typed equals the loaded
\* configuration, whatever its layout, and true when it differs.
C15_JsonDirtyByDocument ==
  [][\A value \in TypedTexts :
       (handleJsonChange(value) /\ configInfo.configuration # Null
          /\ JSONparse(value) # ParseError)
         => (hasUnsavedChanges' = (JSONparse(value) # configInfo.configuration))]_vars

SaveOps == {"SaveConfig", "SaveConfigAndRestart"}

\* A save of the JSON buffer has succeeded and its reload is under way.
SaveReloading ==
  \E i \in DOMAIN tasks :
    tasks[i].op \in SaveOps
      /\ tasks[i].pc \in {"getConfigurationInfo", "getModelConfigurations"}

\* C16: when the remote call of a save of the JSON buffer succeeds,
\* hasUnsavedChanges is cleared and the reload starts; the reload's steps
\* leave the flag alone; and the operation finishes with the flag false.
C16_SaveClearsAndReloads ==
  /\ [][\A i \in DOMAIN tasks :
          /\ ((saveConfigAndRestartDone(i, OkResult)
                 \/ \E rr \in BOOLEAN : saveConfigFromJsonDone(i, OkResult, rr))
                => /\ ~hasUnsavedChanges'
                   /\ loading'
                   /\ tasks'[i].pc = "getConfigurationInfo")
          /\ \A r \in Results :
               (tasks[i].op \in SaveOps
                  /\ (getConfigurationInfoDone(i, r)
                        \/ getModelConfigurationsDone(i, r)))
                 => UNCHANGED hasUnsavedChanges]_vars
  /\ (SaveReloading ~> (~SaveReloading /\ ~hasUnsavedChanges))

\* The save has finished (its auto-clear is pending), the snapshot holds the
\* saved document and the flag is false.
C16_Witness ==
  /\ ~hasUnsavedChanges
  /\ tasks = << >>
  /\ configInfo.configuration = "docB"
  /\ server.configuration = "docB"
  /\ \E k \in DOMAIN timers : timers[k].kind = "clear" /\ timers[k].op \in SaveOps

\* C17: a SaveConfigAndRestart reaches success from phase restarting, and
\* none of its callbacks sets phase restarting once its remote call has
\* returned (with success or with failure).
C17_SaveRestartPhases ==
  [][/\ \A i \in DOMAIN tasks :
          saveConfigAndRestartDone(i, OkResult) => phase = "restarting"
     /\ \A k \in DOMAIN timers :
          (FireTimer(k) /\ timers[k].op = "SaveConfigAndRestart"
             /\ timers[k].type = "restarting")
            => \E i \in DOMAIN tasks :
                 tasks[i].id = timers[k].owner
                   /\ tasks[i].pc = "saveConfigAndRestart"]_vars

\* C18: when a remote mutation call of an operation succeeds, the operation
\* goes on (to its next mutation call or to the re-fetch of the snapshot):
\* it does not finish without reloading.
C18_ReloadAfterMutation ==
  [][\A i \in DOMAIN tasks :
       (tasks[i].pc \in MutationCalls /\ RemoteCallDone(i, OkResult))
         => \E k \in DOMAIN tasks' :
              /\ tasks'[k].id = tasks[i].id
              /\ tasks'[k].pc \in {"restartWithOverrides", "getConfigurationInfo"}]_vars

\* C19: when getModelConfigurations fails after getConfigurationInfo has
\* succeeded, the load succeeds (no load error, the panel is shown) and the
\* model list is empty.
C19_PartialLoad ==
  [][\A i \in DOMAIN tasks, r \in Results :
       (getModelConfigurationsDone(i, r) /\ ~r.success)
         => /\ error' = Null
            /\ ~loading'
            /\ modelConfigs' = << >>]_vars

\* C20: when getConfigurationInfo fails the load ends there with the
\* failure's message as load error: getModelConfigurations is not called,
\* and the snapshot, the selected backend, the JSON buffer and the model
\* buffer are as before.
C20_InfoFailureFatal ==
  [][\A i \in DOMAIN tasks, r \in Results :
       (getConfigurationInfoDone(i, r) /\ ~r.success)
         => /\ error' = ErrorOr(r, "Failed to load configuration")
            /\ ~loading'
            /\ \A k \in DOMAIN tasks' : tasks'[k].id # tasks[i].id
            /\ Len(tasks') = Len(tasks) - 1
            /\ UNCHANGED << configInfo, selectedBackend, jsonConfig, jsonError,
                            modelConfigs, hasUnsavedChanges >>]_vars

\* A reload has failed and the panel still holds the snapshot and the
\* models of the load before it.
C20_Witness ==
  /\ error = "remote failure"
  /\ ~loading
  /\ tasks = << >>
  /\ configInfo # NoConfigInfo
  /\ modelConfigs # << >>
  /\ jsonConfig # ""

\* A model other than modelName whose record in the edit buffer differs
\* from the one the control plane holds.
OtherModelUnsaved(modelName) ==
  \E k \in DOMAIN modelConfigs, j \in DOMAIN server.models :
    /\ modelConfigs[k].name # modelName
    /\ server.models[j].name = modelConfigs[k].name
    /\ server.models[j] # modelConfigs[k]

\* C21: a successful save of one model leaves hasUnsavedChanges set when
\* another model has a change that is not saved.
C21_SaveModelKeepsOthersDirty ==
  [][\A i \in DOMAIN tasks :
       (saveModelConfigurationDone(i, OkResult)
          /\ OtherModelUnsaved(tasks[i].arg) /\ hasUnsavedChanges)
         => hasUnsavedChanges']_vars

\* C22: while the phase is not idle, a change of a model field or of the
\* JSON text leaves the model buffer, the JSON buffer and hasUnsavedChanges
\* as they were.
C22_EditsGatedByPhase ==
  [][(phase # "idle"
        /\ \/ \E m \in ModelNames, v \in GpuLayerValues : ModelFieldInput(m, v)
           \/ \E value \in TypedTexts : handleJsonChange(value))
       => UNCHANGED << modelConfigs, jsonConfig, hasUnsavedChanges >>]_vars

\* C24: the phase is saving, reconfiguring or restarting only while the
\* remote mutation call of some operation is outstanding.
C24_InProgressOnlyInFlight ==
  isOperationInProgress => OutstandingMutations # {}

\* Record k of the edit buffer differs from the record of that model the
\* control plane holds: it was changed and not saved.
ChangedNotSaved(k) ==
  \E j \in DOMAIN server.models :
    /\ server.models[j].name = modelConfigs[k].name
    /\ server.models[j] # modelConfigs[k]

\* C25: the reload of an operation leaves every model record that was
\* changed and not saved as it is in the edit buffer.
C25_ReloadKeepsModelEdits ==
  [][\A i \in DOMAIN tasks, r \in Results :
       (tasks[i].op \in {"ChangeBackend", "Reconfigure", "RestartWithOverrides",
                         "SaveConfig"}
          /\ getModelConfigurationsDone(i, r))
         => \A k \in DOMAIN modelConfigs :
              ChangedNotSaved(k)
                => (k \in DOMAIN modelConfigs' /\ modelConfigs'[k] = modelConfigs[k])]_vars

\* The remote call of a single-call operation returns r to task i.
SingleCallDone(i, r) ==
  \/ regenerateConfigDone(i, r)
  \/ restartWithOverridesDone(i, r)
  \/ saveConfigFromJsonDone(i, r, FALSE)
  \/ saveConfigAndRestartDone(i, r)
  \/ saveModelConfigurationDone(i, r)
  \/ saveAllModelConfigurationsDone(i, r)

\* C26: when the remote call of Reconfigure, RestartWithOverrides, SaveConfig,
\* SaveConfigAndRestart, SaveModel or SaveAllModels fails, the handler ends
\* without a reload, the phase becomes error, and the snapshot, both edit
\* buffers, the validation error and hasUnsavedChanges are unchanged.
C26_FailureChangesOnlyStatus ==
  [][\A i \in DOMAIN tasks, r \in Results :
       (SingleCallDone(i, r) /\ ~r.success)
         => /\ phase' = "error"
            /\ \A k \in DOMAIN tasks' : tasks'[k].id # tasks[i].id
            /\ Len(tasks') = Len(tasks) - 1
            /\ UNCHANGED << configInfo, loading, error, selectedBackend,
                            jsonConfig, jsonError, modelConfigs,
                            hasUnsavedChanges, server >>]_vars

\* A save of all models has failed: the changed record is still in the
\* buffer, not stored, and the flag is still set.
C26_Witness ==
  /\ operationStatus = [type |-> "error",
                        message |-> "Failed to save model configurations"]
  /\ hasUnsavedChanges
  /\ modelConfigs # server.models
  /\ tasks = << >>
  /\ ~loading

\* The models the control plane reports as discovered: result.models of
\* regenerateConfig.
DiscoveredModels == Len(server.models)

\* C27: a Reconfigure clicked in phase idle sets phase reconfiguring and
\* issues regenerateConfig once; the call's success gives phase success with
\* the count of discovered models in the message and starts the reload, its
\* failure gives phase error and ends the handler; regenerateConfig is not
\* issued anywhere else, and no step of a Reconfigure (its continuations, its
\* timer callbacks) puts the phase in restarting or saving.
C27_ReconfigurePhases ==
  [][/\ (ReconfigureButton /\ phase = "idle")
          => /\ phase' = "reconfiguring"
             /\ Len(tasks') = Len(tasks) + 1
             /\ tasks'[Len(tasks')].op = "Reconfigure"
             /\ tasks'[Len(tasks')].pc = "regenerateConfig"
             /\ \A k \in DOMAIN tasks : tasks'[k] = tasks[k]
     /\ \A i \in DOMAIN tasks, r \in Results :
          regenerateConfigDone(i, r)
            => IF r.success
               THEN /\ operationStatus' =
                         [type |-> "success",
                          message |-> "Configuration regenerated with "
                                      \o ToString(DiscoveredModels) \o " models"]
                    /\ Len(tasks') = Len(tasks)
                    /\ tasks'[i].id = tasks[i].id
                    /\ tasks'[i].pc = "getConfigurationInfo"
               ELSE /\ phase' = "error"
                    /\ Len(tasks') = Len(tasks) - 1
     /\ \A k \in DOMAIN tasks' :
          tasks'[k].pc = "regenerateConfig"
            => \/ \E j \in DOMAIN tasks :
                    tasks[j].id = tasks'[k].id /\ tasks[j].pc = "regenerateConfig"
               \/ ReconfigureButton
     /\ \A i \in DOMAIN tasks, r \in Results :
          (tasks[i].op = "Reconfigure" /\ RemoteCallDone(i, r) /\ phase' # phase)
            => phase' \notin {"restarting", "saving"}
     /\ \A k \in DOMAIN timers :
          (timers[k].op = "Reconfigure" /\ FireTimer(k)) => phase' = "idle"]_vars

\* The call of a Reconfigure has succeeded: success with the count is shown
\* and the operation is re-fetching the snapshot.
C27_Witness ==
  /\ operationStatus = [type |-> "success",
                        message |-> "Configuration regenerated with 1 models"]
  /\ \E i \in DOMAIN tasks :
       tasks[i].op = "Reconfigure" /\ tasks[i].pc = "getConfigurationInfo"
  /\ server.configuration = GeneratedDoc

\* C28: the continuation of restartWithOverrides puts the phase in success
\* (and starts the reload) when the call succeeded and in error when it
\* failed, and once the call has returned no progress callback of that
\* RestartWithOverrides puts the phase back in restarting.
C28_RestartOutcome ==
  [][/\ \A i \in DOMAIN tasks, r \in Results :
          restartWithOverridesDone(i, r)
            => /\ phase' = IF r.success THEN "success" ELSE "error"
               /\ r.success
                    => (Len(tasks') = Len(tasks)
                          /\ tasks'[i].pc = "getConfigurationInfo")
     /\ \A k \in DOMAIN timers :
          (FireTimer(k) /\ timers[k].op = "RestartWithOverrides"
             /\ timers[k].kind = "progress")
            => \E i \in DOMAIN tasks :
                 tasks[i].id = timers[k].owner
                   /\ tasks[i].pc = "restartWithOverrides"]_vars

\* The record is one the control plane holds: the one last loaded, or the
\* one last saved successfully.
LoadedOrSaved(record) ==
  \E j \in DOMAIN server.models : server.models[j] = record

\* C30: whenever hasUnsavedChanges is false, the JSON buffer is the
\* serialization of the configuration last loaded and every record of the
\* model buffer is the one last loaded or last saved successfully.
C30_UnsavedFlagSound ==
  ~hasUnsavedChanges
    => /\ jsonConfig = originalConfig
       /\ \A k \in DOMAIN modelConfigs : LoadedOrSaved(modelConfigs[k])

\* The name of the listed backend with this id, the id itself when none is
\* listed.
NameOrId(backendId) ==
  IF \E k \in DOMAIN BackendList : BackendList[k].id = backendId
  THEN (CHOOSE b \in {BackendList[k] : k \in DOMAIN BackendList} :
          b.id = backendId).name
  ELSE backendId

\* C23: after a successful read of the configuration info the selector's
\* mode is auto exactly when the control plane holds no override; otherwise
\* it is explicit with the override's id, and the label is the name of the
\* listed backend with that id, or the id itself when none is listed.  The
\* model read that ends the load does not change the selection.
C23_EffectiveChoiceAfterLoad ==
  [][\A i \in DOMAIN tasks :
       /\ getConfigurationInfoDone(i, OkResult)
            => /\ (effectiveChoice'.mode = "auto") <=> (server.override = Null)
               /\ server.override # Null
                    => /\ effectiveChoice'.mode = "explicit"
                       /\ effectiveChoice'.id = server.override
                       /\ effectiveChoice'.displayName = NameOrId(server.override)
       /\ \A r \in Results :
            getModelConfigurationsDone(i, r) => effectiveChoice' = effectiveChoice]_vars

\* The loaded override names a backend that is not listed: the panel shows
\* explicit mode with the raw id as label.
C23_Witness ==
  /\ Rendered
  /\ configInfo.currentBackendOverride = "rocm"
  /\ effectiveChoice = [mode |-> "explicit", id |-> "rocm", displayName |-> "rocm"]

\* C29: in auto mode the label shown carries the active backend name of the
\* snapshot loaded last when that snapshot has one, and is the plain
\* auto-detect label when it has none.
C29_AutoLabelFromLastSnapshot ==
  (Rendered /\ selectedBackend = "auto")
    => CurrentBackendLabel =
         IF configInfo.currentBackendName # ""
         THEN "Auto-detect (" \o configInfo.currentBackendName \o ")"
         ELSE "Auto-detect"

\* C31: the stored validation error is set only when the JSON edit buffer
\* fails to parse: a buffer that parses is never blocked by a stored error
\* (after a reload that replaced the buffer, after a rejected import).
C31_ValidationGateConsistent ==
  jsonError # Null => JSONparse(jsonConfig) = ParseError

\* C32: once the theme effect has run, the document root carries the class
\* of the current brand when it is not 'default', and no other brand class.
C32_OnlyCurrentBrandClass ==
  ~themeEffectDue
    => classList \cap BrandClasses =
         IF brand = "default" THEN {} ELSE {brand}

\* C33: the runner page without a stored app id is always followed by the
\* apps page, and a stored page that differs from the active one is always
\* followed by a state where the stored page is the active one.
C33_RoutingSettles ==
  /\ RunnerWithoutApp ~> (activePage = "apps")
  /\ (localStorage.activePage # activePage)
       ~> (localStorage.activePage = activePage)

\* The runner page was stored, no app id is, and App has moved on to the
\* apps page, which is not stored yet.
C33_Witness ==
  /\ activePage = "apps"
  /\ localStorage.activePage = "app-runner"
  /\ localStorage.current_app_id = Null

====
